---- MODULE Spec2Model ----
(***************************************************************************)
(* moltbot-memory-sqlite: the SqliteMemoryPlugin class (src/src/index.ts)  *)
(* and the module-level plugin object that wraps one instance of it.       *)
(*                                                                         *)
(* Representation.                                                         *)
(*  - A string is a sequence of one-character strings; a timestamp string  *)
(*    is a sequence of digits (toISOString is fixed width, so two digits   *)
(*    stand for its 24 characters).                                        *)
(*  - A row of table `memories` is a record with the columns id, text,     *)
(*    text_lower, category, importance, created_at.  updated_at always     *)
(*    equals created_at; session_key and metadata are opaque payload that  *)
(*    no statement reads: the three are left out.                          *)
(*  - importance is a REAL in the code; the model holds it times 1000.     *)
(*  - A database image is the set of its rows.  SQLite leaves the order of *)
(*    rows with equal sort keys open, so every query with ORDER BY ...     *)
(*    LIMIT yields a SET of possible results.                              *)
(*  - An id is a number instead of a random UUID: 1, 2, ... for the rows  *)
(*    stored in the behaviour, 101, 102, ... for the rows found in the     *)
(*    file.  No statement orders rows by id.                               *)
(*  - The alphabet is ASCII and the Greek sigma, the one letter whose      *)
(*    lower-case form depends on its position in the word.                 *)
(*  - JavaScript's absent/falsy parameter values are the falsy value of    *)
(*    the parameter's own type: "" (<<>>) for strings, 0 for limit and     *)
(*    memoryId; importance, which the code tests with ??, uses Absent.     *)
(***************************************************************************)
EXTENDS Integers, Sequences, FiniteSets, TLC

\* ------------------------------------------------------------------ bounds

\* store() calls in one behaviour (ids 1..MaxStores are the fresh UUIDs)
MaxStores == 2
\* SqliteMemoryPlugin objects alive at once (one the host or the plugin
\* object refers to, or one whose timer still has something to write)
MaxInst == 2

\* ------------------------------------------------------- program constants

\* DEFAULT_CONFIG.maxMemories
DefaultMaxMemories == 10000
\* DEFAULT_CONFIG.defaultImportance, 0.7, times 1000
DefaultImportance == 700
\* recall: params.limit || 5
DefaultLimit == 5
\* forget: this.recall({ query, limit: 100, filterNoise: false })
ForgetLimit == 100
\* importance not given (params.importance is undefined)
Absent == -1

\* ------------------------------------------------------------------ strings

UpperCase == <<"A","B","C","D","E","F","G","H","I","J","K","L","M",
               "N","O","P","Q","R","S","T","U","V","W","X","Y","Z">>
LowerCase == <<"a","b","c","d","e","f","g","h","i","j","k","l","m",
               "n","o","p","q","r","s","t","u","v","w","x","y","z">>

\* the one non-ASCII letter of the model, written out: capital sigma
\* (U+03A3), small sigma (U+03C3) and final small sigma (U+03C2)
Sigmas == {"SIGMA", "sigma", "final-sigma"}

\* the lower-case form of one character where it does not depend on context
LowerChar(c) ==
  IF \E i \in 1..26 : UpperCase[i] = c
  THEN LowerCase[CHOOSE i \in 1..26 : UpperCase[i] = c]
  ELSE IF c = "SIGMA" THEN "sigma" ELSE c

\* a cased letter
IsLetter(c) ==
  \/ \E i \in 1..26 : UpperCase[i] = c \/ LowerCase[i] = c
  \/ c \in Sigmas

\* String.prototype.toLowerCase: the Unicode mappings, SpecialCasing's
\* Final_Sigma included: a capital sigma that follows a letter and is not
\* followed by one becomes the final small sigma
toLowerCase(s) ==
  [i \in 1..Len(s) |->
     IF /\ s[i] = "SIGMA"
        /\ i > 1 /\ IsLetter(s[i - 1])
        /\ ~(i < Len(s) /\ IsLetter(s[i + 1]))
     THEN "final-sigma"
     ELSE LowerChar(s[i])]

\* the regular expression class \s (the model's only whitespace is " ")
IsSpace(c) == c = " "

RECURSIVE SplitFrom(_, _, _)
\* the tokens of s from position i on, cur being the token read so far
SplitFrom(s, i, cur) ==
  IF i > Len(s) THEN <<cur>>
  ELSE IF IsSpace(s[i])
       THEN IF i > 1 /\ IsSpace(s[i - 1])
            THEN SplitFrom(s, i + 1, cur)
            ELSE <<cur>> \o SplitFrom(s, i + 1, <<>>)
       ELSE SplitFrom(s, i + 1, Append(cur, s[i]))

\* String.prototype.split(/\s+/): a run of whitespace is one separator; a
\* leading or trailing separator leaves an empty token
split(s) == SplitFrom(s, 1, <<>>)

\* recall: query.toLowerCase().split(/\s+/).filter(w => w.length > 1)
QueryWords(query) ==
  LET toks == split(toLowerCase(query))
  IN  {toks[i] : i \in {j \in 1..Len(toks) : Len(toks[j]) > 1}}

RECURSIVE LikeMatch(_, _)
\* SQLite's LIKE folds the case of the ASCII letters only
LikeFold(c) == IF c \in Sigmas THEN c ELSE LowerChar(c)

\* SQLite's  s LIKE pat : % is any run of characters, _ any one character,
\* letters compare without regard to (ASCII) case
LikeMatch(pat, s) ==
  IF pat = <<>> THEN s = <<>>
  ELSE IF Head(pat) = "%"
       THEN LikeMatch(Tail(pat), s) \/ (s # <<>> /\ LikeMatch(pat, Tail(s)))
       ELSE /\ s # <<>>
            /\ (Head(pat) = "_" \/ LikeFold(Head(pat)) = LikeFold(Head(s)))
            /\ LikeMatch(Tail(pat), Tail(s))

\* a variant of LikeWord: the pattern is 'word%'
LikeWordAnchored(text_lower, word) == LikeMatch(word \o <<"%">>, text_lower)

\* text_lower LIKE '%word%'
LikeWord(text_lower, word) == LikeMatch(<<"%">> \o word \o <<"%">>, text_lower)

\* the words of DEFAULT_CONFIG.noisePatterns[0]
NoiseWords ==
  { <<"o","k">>, <<"o","k","a","y">>, <<"y","e","s">>, <<"n","o">>,
    <<"t","h","a","n","k","s">>, <<"t","h","a","n","k"," ","y","o","u">>,
    <<"s","u","r","e">>, <<"g","o","t"," ","i","t">>, <<"c","o","o","l">>,
    <<"n","i","c","e">>, <<"g","r","e","a","t">> }

\* recall: noiseRegexes.some(re => re.test(m.text)) with the default
\* patterns ^(ok|okay|...)$ and ^\s*$, both compiled with flag i
IsNoise(text) ==
  \/ [i \in 1..Len(text) |-> LowerChar(text[i])] \in NoiseWords
  \/ \A i \in 1..Len(text) : IsSpace(text[i])

\* SQLite's comparison of two TEXT values (memcmp, the shorter first)
RECURSIVE StrLess(_, _)
StrLess(a, b) ==
  IF b = <<>> THEN FALSE
  ELSE IF a = <<>> THEN TRUE
  ELSE IF Head(a) # Head(b) THEN Head(a) < Head(b)
  ELSE StrLess(Tail(a), Tail(b))

StrLeq(a, b) == a = b \/ StrLess(a, b)

\* new Date().toISOString() at clock reading t
toISOString(t) == <<t \div 10, t % 10>>

Range(s) == {s[i] : i \in 1..Len(s)}

Min(a, b) == IF a < b THEN a ELSE b

\* --------------------------------------------------------------- the table

\* a variant of RanksBefore: equal importance is ordered oldest first
RanksOldestFirst(a, b) ==
  \/ a.importance > b.importance
  \/ a.importance = b.importance /\ StrLess(a.created_at, b.created_at)

\* a variant of EvictsBefore: equal importance is evicted newest first
EvictsNewestFirst(a, b) ==
  \/ a.importance < b.importance
  \/ a.importance = b.importance /\ StrLess(b.created_at, a.created_at)

\* ORDER BY importance DESC, created_at DESC: a comes strictly before b
RanksBefore(a, b) ==
  \/ a.importance > b.importance
  \/ a.importance = b.importance /\ StrLess(b.created_at, a.created_at)

\* ORDER BY importance ASC, created_at ASC: a comes strictly before b
EvictsBefore(a, b) ==
  \/ a.importance < b.importance
  \/ a.importance = b.importance /\ StrLess(a.created_at, b.created_at)

\* the two ORDER BY clauses of the program
Precedes(order, a, b) ==
  IF order = "DESC" THEN RanksBefore(a, b) ELSE EvictsBefore(a, b)

\* the ids of the model: 1..MaxStores for the rows of this session (random
\* UUIDs in the program), 101.. for the rows of an earlier one
LastId == 100 + ForgetLimit + 1

RECURSIVE CountBefore(_, _, _, _, _)
\* how many rows of the sorted t come strictly before x, t[lo..hi] being
\* the part still in question
CountBefore(order, t, x, lo, hi) ==
  IF lo > hi THEN lo - 1
  ELSE LET mid == (lo + hi) \div 2
       IN  IF Precedes(order, t[mid], x)
           THEN CountBefore(order, t, x, mid + 1, hi)
           ELSE CountBefore(order, t, x, lo, mid - 1)

RECURSIVE Merge(_, _, _)
\* two sorted sequences merged into one, around the middle row of s
Merge(order, s, t) ==
  IF s = <<>> THEN t
  ELSE IF t = <<>> THEN s
  ELSE LET h == (Len(s) + 1) \div 2
           c == CountBefore(order, t, s[h], 1, Len(t))
       IN  Merge(order, SubSeq(s, 1, h - 1), SubSeq(t, 1, c))
             \o <<s[h]>>
             \o Merge(order, SubSeq(s, h + 1, Len(s)), SubSeq(t, c + 1, Len(t)))

RECURSIVE Sort(_, _, _, _)
\* ORDER BY: one sorted arrangement of the rows, whose ids are in lo..hi
Sort(order, rows, lo, hi) ==
  IF rows = {} THEN <<>>
  ELSE IF lo >= hi THEN <<CHOOSE r \in rows : TRUE>>
  ELSE LET mid == (lo + hi) \div 2
           low == {r \in rows : r.id <= mid}
       IN  Merge(order, Sort(order, low, lo, mid), Sort(order, rows \ low, mid + 1, hi))

RECURSIVE RunLen(_, _, _)
\* the length of the run of rows at the head of the sorted s that have the
\* sort key of its first row, i of them being counted already
RunLen(order, s, i) ==
  IF i < Len(s) /\ ~Precedes(order, s[1], s[i + 1]) THEN RunLen(order, s, i + 1) ELSE i

RECURSIVE Perms(_)
\* the arrangements of the rows of a set
Perms(rows) ==
  IF rows = {} THEN {<<>>}
  ELSE UNION { { <<x>> \o p : p \in Perms(rows \ {x}) } : x \in rows }

RECURSIVE Arrangements(_, _)
\* Every sorted arrangement of the sorted s: SQLite leaves the order of rows
\* with equal sort keys open, so the rows of a run of equal keys come in any
\* order.
Arrangements(order, s) ==
  LET n == Len(s)
      ties == {i \in 1..(n - 1) : ~Precedes(order, s[i], s[i + 1])}
  IN  IF ties = {} THEN {s}
      ELSE LET p == CHOOSE i \in ties : \A j \in ties : i <= j
               q == p + RunLen(order, SubSeq(s, p, n), 1) - 1
           IN  { SubSeq(s, 1, p - 1) \o run \o rest :
                   run \in Perms({s[i] : i \in p..q}),
                   rest \in Arrangements(order, SubSeq(s, q + 1, n)) }

\* the possible outcomes of  ORDER BY ... LIMIT k  over the rows
TakeOrdered(order, rows, k) ==
  { SubSeq(a, 1, Min(k, Len(a))) : a \in Arrangements(order, Sort(order, rows, 1, LastId)) }

\* SELECT ... ORDER BY importance DESC, created_at DESC LIMIT k
SelectRanked(rows, k) == TakeOrdered("DESC", rows, k)

\* SELECT id ... ORDER BY importance ASC, created_at ASC LIMIT k
SelectEvictable(rows, k) == TakeOrdered("ASC", rows, k)

\* ------------------------------------------------------------------ recall

\* recall: const limit = params.limit || 5
EffectiveLimit(params) == IF params.limit = 0 THEN DefaultLimit ELSE params.limit

\* recall: the text condition, (text_lower LIKE ? OR text_lower LIKE ? ...)
TextCondition(row, params, words) ==
  \/ params.query = <<>>
  \/ words = {}
  \/ \E w \in words : LikeWord(row.text_lower, w)

\* a variant of CategoryCondition: the category is not part of the WHERE
CategoryIgnored(row, params) == TRUE

\* recall: category = ?
CategoryCondition(row, params) ==
  params.category = "" \/ row.category = params.category

\* recall: created_at >= ? and created_at <= ?
DateCondition(row, params) ==
  /\ params.dateFrom = <<>> \/ StrLeq(params.dateFrom, row.created_at)
  /\ params.dateTo = <<>> \/ StrLeq(row.created_at, params.dateTo)

\* recall: WHERE conditions.join(' AND '), words being the query's words
WhereClause(row, params, words) ==
  /\ TextCondition(row, params, words)
  /\ CategoryCondition(row, params)
  /\ DateCondition(row, params)

\* recall: rows.push({ id: row.id, text: row.text, ... createdAt: row.created_at })
toMemory(row) ==
  [id |-> row.id, text |-> row.text, category |-> row.category,
   importance |-> row.importance, createdAt |-> row.created_at]

\* store: the values bound to INSERT INTO memories
toRow(memory) ==
  [id |-> memory.id, text |-> memory.text, text_lower |-> toLowerCase(memory.text),
   category |-> memory.category, importance |-> memory.importance,
   created_at |-> memory.createdAt]

\* a variant of FetchRows: the statement has no LIMIT
FetchRowsAll(rows, params) ==
  LET words == QueryWords(params.query)
  IN  { [i \in 1..Len(f) |-> toMemory(f[i])] :
          f \in SelectRanked({r \in rows : WhereClause(r, params, words)},
                             Cardinality(rows)) }

\* recall: the rows the statement steps through (LIMIT limit * 2), each
\* pushed as a Memory
FetchRows(rows, params) ==
  LET words == QueryWords(params.query)
  IN  { [i \in 1..Len(f) |-> toMemory(f[i])] :
          f \in SelectRanked({r \in rows : WhereClause(r, params, words)},
                             EffectiveLimit(params) * 2) }

\* a variant of NoiseFilter: filters only when filterNoise is given as true
NoiseFilterOnRequest(fetched, params) ==
  IF params.filterNoise = "true"
  THEN SelectSeq(fetched, LAMBDA m : ~IsNoise(m.text))
  ELSE fetched

\* recall: if (params.filterNoise !== false) memories = memories.filter(...)
NoiseFilter(fetched, params) ==
  IF params.filterNoise # "false"
  THEN SelectSeq(fetched, LAMBDA m : ~IsNoise(m.text))
  ELSE fetched

\* recall: memories.slice(0, limit)
Slice(memories, limit) == SubSeq(memories, 1, Min(limit, Len(memories)))

\* SqliteMemoryPlugin.recall on the image rows: the possible return values
recall(rows, params) ==
  { Slice(NoiseFilter(f, params), EffectiveLimit(params)) : f \in FetchRows(rows, params) }

\* ------------------------------------------------- one object and the file

(* The methods below are functions of a "world" w: the fields of one       *)
(* SqliteMemoryPlugin object (db: the handle is not null; rows: the image  *)
(* behind it; dirty, saveTimer, initialized) and the file at dbPath        *)
(* (file.exists, file.rows).  cfg is the object's config.  w.writes lists   *)
(* the images that the call under way has handed to writeFileSync so far.  *)

\* save(): writeFileSync(dbPath, db.export()); dirty = false
save(w) ==
  IF ~w.db THEN w
  ELSE [w EXCEPT !.file = [exists |-> TRUE, rows |-> w.rows], !.dirty = FALSE,
                 !.writes = Append(@, w.rows)]

\* a variant of saveIfDirty: the test of the flag is inverted
saveIfClean(w) == IF ~w.dirty THEN save(w) ELSE w

\* saveIfDirty()
saveIfDirty(w) == IF w.dirty THEN save(w) ELSE w

\* a variant of markDirty: sets the flag and leaves every flush to the timer
markDirtyOnly(w, cfg) == [w EXCEPT !.dirty = TRUE]

\* markDirty()
markDirty(w, cfg) ==
  LET d == [w EXCEPT !.dirty = TRUE]
  IN  IF cfg.autoSaveInterval = 0 THEN save(d) ELSE d

\* a variant of pruneOldMemories: deletes one row fewer than the excess
pruneLeavingOne(w, cfg) ==
  LET total == Cardinality(w.rows)
  IN  IF total > cfg.maxMemories + 1
      THEN { markDirty([w EXCEPT !.rows = w.rows \ Range(v)], cfg) :
               v \in SelectEvictable(w.rows, total - cfg.maxMemories - 1) }
      ELSE {w}

\* pruneOldMemories(): the possible worlds after it
pruneOldMemories(w, cfg) ==
  LET total == Cardinality(w.rows)
  IN  IF total > cfg.maxMemories
      THEN { markDirty([w EXCEPT !.rows = w.rows \ Range(v)], cfg) :
               v \in SelectEvictable(w.rows, total - cfg.maxMemories) }
      ELSE {w}

\* store(), after the guard: INSERT, markDirty(), pruneOldMemories()
storeOn(w, cfg, memory) ==
  pruneOldMemories(markDirty([w EXCEPT !.rows = w.rows \cup {toRow(memory)}], cfg), cfg)

\* a variant of forgetOn: the candidates are recalled with the noise filter
forgetOnFiltered(w, cfg, params) ==
  LET done(gone) ==
        <<IF Cardinality(gone) > 0
          THEN markDirty([w EXCEPT !.rows = w.rows \ gone], cfg)
          ELSE w,
          Cardinality(gone)>>
  IN  IF params.memoryId # 0
      THEN {done({r \in w.rows : r.id = params.memoryId})}
      ELSE IF params.query # <<>>
      THEN { done({r \in w.rows : \E i \in 1..Len(ms) : ms[i].id = r.id}) :
               ms \in recall(w.rows, [query |-> params.query, limit |-> ForgetLimit,
                                      category |-> "", dateFrom |-> <<>>,
                                      dateTo |-> <<>>, filterNoise |-> "undefined"]) }
      ELSE {done({})}

\* a variant of forgetOn: the statement deletes every row the query matches,
\* DELETE FROM memories WHERE text_lower LIKE ...
forgetOnMatching(w, cfg, params) ==
  LET done(gone) ==
        <<IF Cardinality(gone) > 0
          THEN markDirty([w EXCEPT !.rows = w.rows \ gone], cfg)
          ELSE w,
          Cardinality(gone)>>
      all == [query |-> params.query, limit |-> 0, category |-> "",
              dateFrom |-> <<>>, dateTo |-> <<>>, filterNoise |-> "false"]
  IN  IF params.memoryId # 0
      THEN {done({r \in w.rows : r.id = params.memoryId})}
      ELSE IF params.query # <<>>
      THEN {done({r \in w.rows : WhereClause(r, all, QueryWords(params.query))})}
      ELSE {done({})}

\* a variant of forgetOn: pruneOldMemories() runs at the end, as in store()
forgetOnEvicting(w, cfg, params) ==
  LET done(gone) ==
        { <<v, Cardinality(gone)>> :
            v \in pruneOldMemories(IF Cardinality(gone) > 0
                                   THEN markDirty([w EXCEPT !.rows = w.rows \ gone], cfg)
                                   ELSE w, cfg) }
  IN  IF params.memoryId # 0
      THEN done({r \in w.rows : r.id = params.memoryId})
      ELSE IF params.query # <<>>
      THEN UNION { done({r \in w.rows : \E i \in 1..Len(ms) : ms[i].id = r.id}) :
                     ms \in recall(w.rows, [query |-> params.query, limit |-> ForgetLimit,
                                            category |-> "", dateFrom |-> <<>>,
                                            dateTo |-> <<>>, filterNoise |-> "false"]) }
      ELSE done({})

\* forget(), after the guard: the possible pairs <<world, deleted>>
forgetOn(w, cfg, params) ==
  LET done(gone) ==
        <<IF Cardinality(gone) > 0
          THEN markDirty([w EXCEPT !.rows = w.rows \ gone], cfg)
          ELSE w,
          Cardinality(gone)>>
  IN  IF params.memoryId # 0
      THEN {done({r \in w.rows : r.id = params.memoryId})}
      ELSE IF params.query # <<>>
      THEN { done({r \in w.rows : \E i \in 1..Len(ms) : ms[i].id = r.id}) :
               ms \in recall(w.rows, [query |-> params.query, limit |-> ForgetLimit,
                                      category |-> "", dateFrom |-> <<>>,
                                      dateTo |-> <<>>, filterNoise |-> "false"]) }
      ELSE {done({})}

\* stats(): total and byCategory (a category without rows has no key: 0)
statsOf(rows, categories) ==
  [total |-> Cardinality(rows),
   byCategory |-> [c \in categories |-> Cardinality({r \in rows : r.category = c})]]

\* a variant of close: the handle is released before the flush
closeReleasingFirst(w) ==
  LET a == [w EXCEPT !.saveTimer = FALSE]
      b == IF a.db THEN [a EXCEPT !.db = FALSE, !.rows = {}] ELSE a
      c == saveIfDirty(b)
  IN  [c EXCEPT !.initialized = FALSE]

\* close()
close(w) ==
  LET a == [w EXCEPT !.saveTimer = FALSE]
      b == saveIfDirty(a)
      c == IF b.db THEN [b EXCEPT !.db = FALSE, !.rows = {}] ELSE b
  IN  [c EXCEPT !.initialized = FALSE]

\* initializeSchema(): CREATE TABLE/INDEX IF NOT EXISTS change no row; save()
initializeSchema(w) == save(w)

\* init().  outcome: "ok"; "loadFails" (initSqlJs, mkdirSync or readFileSync
\* throws: this.db is not yet assigned); "schemaFails" (initializeSchema
\* throws - db.run or writeFileSync - after this.db was assigned)
init(w, cfg, outcome) ==
  IF w.initialized THEN w
  ELSE IF outcome = "loadFails" THEN w
  ELSE LET loaded == [w EXCEPT !.db = TRUE,
                               !.rows = IF w.file.exists THEN w.file.rows ELSE {}]
       IN  IF outcome = "schemaFails" THEN loaded
           ELSE LET up == [initializeSchema(loaded) EXCEPT !.initialized = TRUE]
                IN  IF cfg.autoSaveInterval > 0
                    THEN [up EXCEPT !.saveTimer = TRUE]
                    ELSE up
\* ------------------------------------------------------------------- inputs

\* MemoryStoreParams: "ok" (noise), "Ok go" (holds "ok", no noise), "ab"
StoreParams ==
  { [text |-> <<"o","k">>, category |-> "", importance |-> Absent],
    [text |-> <<"O","k"," ","g","o">>, category |-> "", importance |-> Absent],
    [text |-> <<"a","SIGMA","b">>, category |-> "preference", importance |-> 900] }

\* MemoryCategory, as far as the inputs use it
Categories == {"preference", "other"}

\* "ok"; "K g" (no word longer than one character); "a_" (a LIKE wildcard)
Queries == { <<"o","k">>, <<"K"," ","g">>, <<"a","_">> }

NoRecallParams ==
  [query |-> <<>>, limit |-> 0, category |-> "", dateFrom |-> <<>>, dateTo |-> <<>>,
   filterNoise |-> "undefined"]

\* MemoryRecallParams
RecallParams ==
  { [NoRecallParams EXCEPT !.query = q, !.category = c, !.filterNoise = f] :
      q \in {<<"o","k">>, <<>>}, c \in {"", "preference"}, f \in {"undefined", "false"} }
  \cup
  { [NoRecallParams EXCEPT !.query = q, !.limit = 1, !.filterNoise = f] :
      q \in {<<"o","k">>, <<>>}, f \in {"true", "false"} }
  \cup
  { [NoRecallParams EXCEPT !.query = q] : q \in Queries }
  \cup
  { [NoRecallParams EXCEPT !.dateFrom = <<0, 1>>], [NoRecallParams EXCEPT !.dateTo = <<0>>] }

\* forget({})
NoForgetParams == [memoryId |-> 0, query |-> <<>>]

\* MemoryForgetParams: memoryId 0 and query <<>> are "not given"; 1 is the id
\* of the first record stored, 101 the id of the first row of the file
ForgetParams ==
  { NoForgetParams, [memoryId |-> 1, query |-> <<>>], [memoryId |-> 101, query |-> <<>>],
    [memoryId |-> 1, query |-> <<"o","k">>], [memoryId |-> 0, query |-> <<"o","k">>],
    [memoryId |-> 0, query |-> <<"K"," ","g">>] }

InitOutcomes == {"ok", "loadFails", "schemaFails"}

\* config.maxMemories in the small configurations
Capacities == {1, 2}

\* config.autoSaveInterval: 0 (write-through, the default) or 1000 ms
Intervals == {0, 1000}

Configs ==
  { [maxMemories |-> m, autoSaveInterval |-> a] : m \in Capacities, a \in Intervals }

Objects == 1..MaxInst

NoReturn == [memories |-> <<>>, count |-> 0, byCategory |-> [c \in Categories |-> 0]]

NoFile == [exists |-> FALSE, rows |-> {}]

\* a SqliteMemoryPlugin object as its constructor leaves it
Constructed ==
  [db |-> FALSE, rows |-> {}, dirty |-> FALSE, saveTimer |-> FALSE, initialized |-> FALSE]

\* k rows an earlier session left in the file: "ok" with the default
\* importance, and "Ok go" with the importances 0.9, 0.899, ...
Earlier(k) ==
  { toRow([id |-> 100 + j,
           text |-> IF j = 1 THEN <<"o","k">> ELSE <<"O","k"," ","g","o">>,
           category |-> IF j = 1 THEN "other" ELSE "preference",
           importance |-> IF j = 1 THEN DefaultImportance ELSE 902 - j,
           createdAt |-> toISOString(0)]) : j \in 1..k }

\* the file before the first init: none, or one an earlier session with the
\* same config filled to its maxMemories
InitialFiles(cfg) == {NoFile, [exists |-> TRUE, rows |-> Earlier(cfg.maxMemories)]}

\* the default capacity, write-through or write-back
DefaultConfigs ==
  { [maxMemories |-> DefaultMaxMemories, autoSaveInterval |-> a] : a \in Intervals }

\* room for one row more than a recall without limit returns, write-through
\* or write-back
ManyConfigs ==
  { [maxMemories |-> DefaultLimit + 1, autoSaveInterval |-> a] : a \in Intervals }

\* files with as many rows as forget's recall returns at most, and one more
BulkFiles == { [exists |-> TRUE, rows |-> Earlier(n)] : n \in {ForgetLimit, ForgetLimit + 1} }

\* the small configurations with room for one row
ShrunkConfigs == { cfg \in Configs : cfg.maxMemories = 1 }

\* k rows an earlier session left in the file, the most important ones
\* acknowledgements: "ok" with importance 0.9, but for the last, "Ok go" with
\* the default importance
Acknowledged(k) ==
  { toRow([id |-> 100 + j,
           text |-> IF j < k THEN <<"o","k">> ELSE <<"O","k"," ","g","o">>,
           category |-> "other",
           importance |-> IF j < k THEN 900 ELSE DefaultImportance,
           createdAt |-> toISOString(0)]) : j \in 1..k }

\* a file an earlier session wrote under a larger maxMemories: it holds two
\* rows more than the config now allows
ShrunkFile(cfg) == [exists |-> TRUE, rows |-> Acknowledged(cfg.maxMemories + 2)]

\* -------------------------------------------------------------------- state

VARIABLES
  config,          \* the PluginConfig every object is constructed with
  obj,             \* obj[i]: the fields of object i
  hostObject,      \* the object the host constructed itself and calls directly
                   \* (0: the host uses the plugin object instead)
  pluginInstance,  \* the module's pluginInstance: 0 (null) or an object
  file,            \* the file at config.dbPath
  clock,           \* the reading of Date at the latest store()
  nextId,          \* the next randomUUID()
  last             \* the latest call: the operation, the object it ran on, the
                   \* argument of a forget, what it returned (the Memory of a
                   \* store, the count of a forget or a stats) and the error it
                   \* threw

vars == <<config, obj, hostObject, pluginInstance, file, clock, nextId, last>>

World(i) ==
  [db |-> obj[i].db, rows |-> obj[i].rows, dirty |-> obj[i].dirty,
   saveTimer |-> obj[i].saveTimer, initialized |-> obj[i].initialized, file |-> file,
   writes |-> <<>>]

Fields(w) ==
  [db |-> w.db, rows |-> w.rows, dirty |-> w.dirty, saveTimer |-> w.saveTimer,
   initialized |-> w.initialized]

\* object i and the file become as in world w
Becomes(i, w) ==
  /\ obj' = [obj EXCEPT ![i] = Fields(w)]
  /\ file' = w.file

CalledWith(op, i, arg, ret, err) ==
  last' = [op |-> op, obj |-> i, arg |-> arg, ret |-> ret, err |-> err]

Called(op, i, ret, err) == CalledWith(op, i, NoForgetParams, ret, err)

\* An object nothing refers to any more acts only through its timer, and
\* only while it is dirty: saveIfDirty() then writes once and never again.
\* Such an object's fields are reset, so that states differing only in
\* garbage are one state, and its place is free for the next object.
Garbage(w) == ~(w.saveTimer /\ w.dirty)

Free(i) == i # hostObject /\ i # pluginInstance /\ obj[i] = Constructed

InitWith(hosted, stores) ==
  /\ obj = [i \in Objects |-> Constructed]
  /\ hostObject = IF hosted THEN 1 ELSE 0
  /\ pluginInstance = 0
  /\ clock = 0
  /\ nextId = MaxStores - stores + 1
  /\ last = [op |-> "", obj |-> 0, arg |-> NoForgetParams, ret |-> NoReturn, err |-> ""]

\* the host has constructed object 1: new SqliteMemoryPlugin(config)
Init ==
  /\ InitWith(TRUE, MaxStores)
  /\ config \in Configs
  /\ file \in InitialFiles(config)

\* the same over a larger file, with one store() call in the behaviour: a
\* file an earlier session with the same config filled to its maxMemories,
\* or, with the default capacity, a file of a hundred rows or more
InitBulk ==
  /\ InitWith(TRUE, 1)
  /\ \/ config \in ManyConfigs /\ file = [exists |-> TRUE, rows |-> Earlier(config.maxMemories)]
     \/ config \in DefaultConfigs /\ file \in BulkFiles

\* the host has constructed object 1 with a smaller maxMemories than the
\* session that wrote the file
InitShrunk ==
  /\ InitWith(TRUE, MaxStores)
  /\ config \in ShrunkConfigs
  /\ file = ShrunkFile(config)

\* the host has imported the module: pluginInstance is null
InitPlugin ==
  /\ InitWith(FALSE, MaxStores)
  /\ config \in Configs
  /\ file \in InitialFiles(config)

\* ------------------------------------------------------- the class methods

\* await object.init(), i the object
Init_(i, outcome) ==
  /\ Becomes(i, init(World(i), config, outcome))
  /\ Called("init", i, NoReturn,
            IF obj[i].initialized \/ outcome = "ok" THEN "" ELSE outcome)
  /\ UNCHANGED <<config, hostObject, pluginInstance, clock, nextId>>

\* the guard  if (!this.db) throw new Error('Database not initialized...')
Refused(op, i) ==
  /\ ~obj[i].db
  /\ Called(op, i, NoReturn, "NotInitialized")
  /\ UNCHANGED <<config, obj, hostObject, pluginInstance, file, clock, nextId>>

\* object.store(params)
Store(op, i) ==
  \/ Refused(op, i)
  \/ /\ obj[i].db
     /\ nextId <= MaxStores
     /\ \E params \in StoreParams, now \in {clock, clock + 1} :
          LET memory == [id |-> nextId, text |-> params.text,
                         category |-> IF params.category = "" THEN "other"
                                      ELSE params.category,
                         importance |-> IF params.importance = Absent
                                        THEN DefaultImportance
                                        ELSE params.importance,
                         createdAt |-> toISOString(now)]
          IN  /\ \E w \in storeOn(World(i), config, memory) : Becomes(i, w)
              /\ Called(op, i, [NoReturn EXCEPT !.memories = <<memory>>], "")
              /\ clock' = now
     /\ nextId' = nextId + 1
     /\ UNCHANGED <<config, hostObject, pluginInstance>>

\* a variant of Recall: the call flushes a dirty image before it reads
RecallFlushing(op, i) ==
  \/ Refused(op, i)
  \/ /\ obj[i].db
     /\ Becomes(i, saveIfDirty(World(i)))
     /\ Called(op, i, NoReturn, "")
     /\ UNCHANGED <<config, hostObject, pluginInstance, clock, nextId>>

\* object.recall(params): it returns a member of recall(obj[i].rows, params)
\* and assigns nothing; the statements about its value quantify over params
Recall(op, i) ==
  \/ Refused(op, i)
  \/ /\ obj[i].db
     /\ Called(op, i, NoReturn, "")
     /\ UNCHANGED <<config, obj, hostObject, pluginInstance, file, clock, nextId>>

\* object.forget(params)
Forget(op, i) ==
  \/ Refused(op, i)
  \/ /\ obj[i].db
     /\ \E params \in ForgetParams : \E r \in forgetOn(World(i), config, params) :
          /\ Becomes(i, r[1])
          /\ CalledWith(op, i, params, [NoReturn EXCEPT !.count = r[2]], "")
     /\ UNCHANGED <<config, hostObject, pluginInstance, clock, nextId>>

\* object.stats()
Stats(i) ==
  \/ Refused("stats", i)
  \/ /\ obj[i].db
     /\ LET st == statsOf(obj[i].rows, Categories)
        IN  Called("stats", i,
                   [NoReturn EXCEPT !.count = st.total, !.byCategory = st.byCategory], "")
     /\ UNCHANGED <<config, obj, hostObject, pluginInstance, file, clock, nextId>>

\* object.close()
Close(i) ==
  /\ Becomes(i, close(World(i)))
  /\ Called("close", i, NoReturn, "")
  /\ UNCHANGED <<config, hostObject, pluginInstance, clock, nextId>>

\* the callback of setInterval(() => this.saveIfDirty(), autoSaveInterval)
TimerTick(i) ==
  /\ obj[i].saveTimer
  /\ LET w == saveIfDirty(World(i))
     IN  IF i # hostObject /\ i # pluginInstance
         THEN obj' = [obj EXCEPT ![i] = Constructed] /\ file' = w.file
         ELSE Becomes(i, w)
  /\ Called("timer", i, NoReturn, "")
  /\ UNCHANGED <<config, hostObject, pluginInstance, clock, nextId>>

\* ------------------------------------------------------- the plugin object

\* plugin.init(config): pluginInstance = new SqliteMemoryPlugin(config);
\* await pluginInstance.init().  The object pluginInstance referred to
\* before is closed by nobody.
PluginInit(outcome) ==
  /\ \E i \in Objects : Free(i)
  /\ LET i == CHOOSE j \in Objects : Free(j)
         w == init(World(i), config, outcome)
         old == pluginInstance
     IN  /\ obj' = [j \in Objects |->
                     IF j = i THEN Fields(w)
                     ELSE IF j = old /\ Garbage(obj[j]) THEN Constructed
                     ELSE obj[j]]
         /\ file' = w.file
         /\ pluginInstance' = i
         /\ Called("plugin.init", i, NoReturn, IF outcome = "ok" THEN "" ELSE outcome)
  /\ UNCHANGED <<config, hostObject, clock, nextId>>

\* if (!pluginInstance) throw new Error('Plugin not initialized')
PluginRefused(op) ==
  /\ pluginInstance = 0
  /\ Called(op, 0, NoReturn, "PluginNotInitialized")
  /\ UNCHANGED <<config, obj, hostObject, pluginInstance, file, clock, nextId>>

\* plugin.handlers.memory_store
MemoryStore ==
  \/ PluginRefused("memory_store")
  \/ pluginInstance # 0 /\ Store("memory_store", pluginInstance)

\* plugin.handlers.memory_recall
MemoryRecall ==
  \/ PluginRefused("memory_recall")
  \/ pluginInstance # 0 /\ Recall("memory_recall", pluginInstance)

\* plugin.handlers.memory_forget
MemoryForget ==
  \/ PluginRefused("memory_forget")
  \/ pluginInstance # 0 /\ Forget("memory_forget", pluginInstance)

\* plugin.shutdown
Shutdown ==
  /\ IF pluginInstance # 0
     THEN /\ Becomes(pluginInstance, close(World(pluginInstance)))
          /\ pluginInstance' = 0
     ELSE UNCHANGED <<obj, file, pluginInstance>>
  /\ Called("shutdown", pluginInstance, NoReturn, "")
  /\ UNCHANGED <<config, hostObject, clock, nextId>>

\* --------------------------------------------------------- specifications

HostInit == \E outcome \in InitOutcomes : Init_(hostObject, outcome)
HostStore == Store("store", hostObject)
HostRecall == Recall("recall", hostObject)
HostForget == Forget("forget", hostObject)
HostStats == Stats(hostObject)
HostClose == Close(hostObject)
Timer == \E i \in Objects : TimerTick(i)
PluginInitCall == \E outcome \in InitOutcomes : PluginInit(outcome)

\* The host constructs one object and calls its methods.
Next ==
  \/ HostInit
  \/ HostStore
  \/ HostRecall
  \/ HostForget
  \/ HostStats
  \/ HostClose
  \/ Timer

Spec == Init /\ [][Next]_vars

\* The same host, over a larger file.
SpecBulk == InitBulk /\ [][Next]_vars

\* The same host, over a file with more rows than maxMemories.
SpecShrunk == InitShrunk /\ [][Next]_vars

\* write-back mode: autoSaveInterval > 0
InitWriteBack == Init /\ config.autoSaveInterval > 0

\* The host in write-back mode.  A timer that setInterval has started fires
\* again and again until clearInterval: the callback of an object that has
\* its timer is not put off for ever.
SpecWriteBack ==
  InitWriteBack /\ [][Next]_vars /\ \A i \in Objects : WF_vars(TimerTick(i))

\* The host works through the plugin object.
NextPlugin ==
  \/ PluginInitCall
  \/ MemoryStore
  \/ MemoryRecall
  \/ MemoryForget
  \/ Shutdown
  \/ Timer

SpecPlugin == InitPlugin /\ [][NextPlugin]_vars
\* -------------------------------------------------------------- properties

\* a comes no later than b in the order the spec gives for recall:
\* importance descending, then createdAt descending
NotRankedBelow(a, b) ==
  \/ a.importance > b.importance
  \/ a.importance = b.importance /\ StrLeq(b.createdAt, a.createdAt)

\* v is a least valuable row of all: lowest importance, and the oldest
\* created_at among the rows of that importance
LeastValuable(v, all) ==
  \A x \in all :
    \/ x.importance > v.importance
    \/ x.importance = v.importance /\ StrLeq(v.created_at, x.created_at)

\* the step is a store() that returned
StoreReturned == nextId' = nextId + 1 /\ last'.err = ""

\* every value recall may return on object i for params
Recalled(i, params) == recall(obj[i].rows, params)

\* a recall has just returned: the state is the one it ran in
RecallReturned == last.op = "recall" /\ last.err = ""

\* the row is the record with text exactly "ok"
IsOk(row) == row.text = <<"o","k">>

\* the sequence of records holds the row
Returns(ms, row) == \E k \in 1..Len(ms) : ms[k].id = row.id

\* the request's predicates (query words, category, dates) accept the row
Accepts(params, row) ==
  /\ \/ QueryWords(params.query) = {}
     \/ \E w \in QueryWords(params.query) : LikeWord(toLowerCase(row.text), w)
  /\ params.category = "" \/ row.category = params.category
  /\ params.dateFrom = <<>> \/ StrLeq(params.dateFrom, row.created_at)
  /\ params.dateTo = <<>> \/ StrLeq(row.created_at, params.dateTo)

\* the rows, other than m, that the request accepts and that m does not
\* strictly outrank
AtOrAbove(m, rows, params) ==
  { x \in rows : x # m /\ Accepts(params, x) /\ NotRankedBelow(toMemory(x), toMemory(m)) }

\* C1 - Eviction victim.  When an object configured with maxMemories = N
\* holds N rows and store() returns, it holds N rows again: the rows it held
\* and the new one, but for exactly one, and that one has the lowest
\* importance of the N+1 and, among those of that importance, the oldest
\* createdAt.  Every other row is there as it was.
C1_EvictionVictim ==
  [][ StoreReturned /\ Cardinality(obj[last'.obj].rows) = config.maxMemories
      => LET all == obj[last'.obj].rows \cup {toRow(last'.ret.memories[1])}
             kept == obj'[last'.obj].rows
         IN  /\ Cardinality(kept) = config.maxMemories
             /\ \E v \in all : kept = all \ {v} /\ LeastValuable(v, all) ]_vars

\* C1 witness: a store() into a full image returned a record that is itself
\* the victim
C1_Witness ==
  /\ last.op = "store" /\ last.err = ""
  /\ Cardinality(obj[last.obj].rows) = config.maxMemories
  /\ toRow(last.ret.memories[1]) \notin obj[last.obj].rows

\* C2 - Capacity bound.  Between public operations no image holds more than
\* maxMemories rows (every operation is one step: the excess between the
\* INSERT and the eviction of one store() is inside a step).
C2_CapacityBound ==
  \A i \in Objects : obj[i].db => Cardinality(obj[i].rows) <= config.maxMemories

\* C2 witness: after the second store() an image with room for one row
\* holds one row
C2_Witness ==
  /\ last.op = "store" /\ last.err = "" /\ last.ret.memories[1].id = 2
  /\ config.maxMemories = 1
  /\ Cardinality(obj[last.obj].rows) = 1

\* a store() has just returned: the state is the one an immediately
\* following call runs in
StoreJustReturned == last.op = "store" /\ last.err = ""

\* the record the latest store() returned
Stored == last.ret.memories[1]

\* the upper-case form of one character
UpperChar(c) ==
  IF \E i \in 1..26 : LowerCase[i] = c
  THEN UpperCase[CHOOSE i \in 1..26 : LowerCase[i] = c]
  ELSE IF c \in Sigmas THEN "SIGMA" ELSE c

\* the substrings of text, as they stand, in upper case, and in the lower
\* case of each character: strings that are substrings of text when compared
\* case-insensitively
SubQueries(text) ==
  LET subs == {SubSeq(text, i, j) : i, j \in 1..Len(text)} \ {<<>>}
  IN  subs \cup {[k \in 1..Len(q) |-> UpperChar(q[k])] : q \in subs}
           \cup {[k \in 1..Len(q) |-> LowerChar(q[k])] : q \in subs}

\* the string has a token (between blanks) of more than one character
HasLongToken(q) ==
  \E i \in 1..(Len(q) - 1) : q[i] # " " /\ q[i + 1] # " "

\* w occurs in t
Contains(t, w) ==
  \E i \in 0..(Len(t) - Len(w)) : SubSeq(t, i + 1, i + Len(w)) = w

\* recall({query: q})
QueryOnly(q) == [NoRecallParams EXCEPT !.query = q]

\* C3 as stated - Round-trip.  After store() has returned r, a recall with
\* default limit and filterNoise, whose query is a substring of r.text
\* (compared case-insensitively) with a token longer than one character,
\* returns r.
C3_AsStated ==
  StoreJustReturned =>
    \A q \in SubQueries(Stored.text) :
      HasLongToken(q) =>
        \A ms \in Recalled(last.obj, QueryOnly(q)) : Returns(ms, Stored)

\* the lower-cased query has a token longer than one character that occurs
\* in the lower-cased text
LoweredTokenOccurs(q, text) ==
  \E w \in QueryWords(q) : Contains(toLowerCase(text), w)

\* C3 amended - Round-trip.  After store() has returned r, if r was not
\* evicted by that store() and r.text is not noise, a recall with default
\* limit and filterNoise returns r whenever (a) the lower-cased query has a
\* token longer than one character that occurs in the lower-cased r.text,
\* and (b) fewer than 5 other records that the query accepts rank at or above
\* r.  (a) holds of every substring of r.text, compared case-insensitively,
\* that has such a token and no sigma.
C3_RoundTrip ==
  StoreJustReturned =>
    \A q \in SubQueries(Stored.text) :
      /\ HasLongToken(q) /\ (\A k \in 1..Len(q) : q[k] \notin Sigmas)
           => LoweredTokenOccurs(q, Stored.text)
      /\ /\ toRow(Stored) \in obj[last.obj].rows
         /\ ~IsNoise(Stored.text)
         /\ LoweredTokenOccurs(q, Stored.text)
         /\ Cardinality(AtOrAbove(toRow(Stored), obj[last.obj].rows, QueryOnly(q)))
              < 5
         => \A ms \in Recalled(last.obj, QueryOnly(q)) : Returns(ms, Stored)

\* C3 witness: store() has returned a record that is not noise and is in
\* the image, next to another record its text's query accepts, and the
\* recall for that query returns it
C3_Witness ==
  /\ StoreJustReturned
  /\ toRow(Stored) \in obj[last.obj].rows
  /\ ~IsNoise(Stored.text)
  /\ \E x \in obj[last.obj].rows :
       x.id # Stored.id /\ Accepts(QueryOnly(Stored.text), x)
  /\ \A ms \in Recalled(last.obj, QueryOnly(Stored.text)) : Returns(ms, Stored)

\* C4 - Ranking.  Whatever the request and the state a recall runs in, the
\* sequence it returns is sorted by importance descending and, for equal
\* importance, createdAt descending.
C4_Ranking ==
  RecallReturned =>
    \A params \in RecallParams : \A ms \in Recalled(last.obj, params) :
      \A a, b \in 1..Len(ms) : a < b => NotRankedBelow(ms[a], ms[b])

\* C4 witness: a recall has run on an image where some request returns two
\* records of equal importance, the newer first
C4_Witness ==
  /\ RecallReturned
  /\ \E params \in RecallParams : \E ms \in Recalled(last.obj, params) :
       /\ Len(ms) >= 2
       /\ ms[1].importance = ms[2].importance
       /\ StrLess(ms[2].createdAt, ms[1].createdAt)

\* C5 - Category filter.  A recall with a category returns only records of
\* that category, whatever the query (the empty one included).
C5_CategoryFilter ==
  RecallReturned =>
    \A params \in RecallParams : \A ms \in Recalled(last.obj, params) :
      params.category # "" => \A k \in 1..Len(ms) : ms[k].category = params.category

\* C5 witness: a recall has run on an image with rows of two categories,
\* where the empty query with a category returns a record
C5_Witness ==
  /\ RecallReturned
  /\ \E r1, r2 \in obj[last.obj].rows : r1.category # r2.category
  /\ \E params \in RecallParams : \E ms \in Recalled(last.obj, params) :
       params.category # "" /\ params.query = <<>> /\ Len(ms) >= 1

\* C6 as stated - Noise suppression.  A row "ok" that the request would
\* otherwise match is never returned with filterNoise true or omitted, and
\* is returned with filterNoise false.
C6_AsStated ==
  RecallReturned =>
    \A params \in RecallParams : \A m \in obj[last.obj].rows :
      IsOk(m) /\ Accepts(params, m) =>
        \A ms \in Recalled(last.obj, params) :
          IF params.filterNoise = "false" THEN Returns(ms, m) ELSE ~Returns(ms, m)

\* C6 amended - A row "ok" that the request accepts is never returned with
\* filterNoise true or omitted; with filterNoise false it is returned
\* whenever fewer than limit (5 when not given) other accepted rows rank at
\* or above it.
C6_NoiseSuppression ==
  RecallReturned =>
    \A params \in RecallParams : \A m \in obj[last.obj].rows :
      IsOk(m) /\ Accepts(params, m) =>
        \A ms \in Recalled(last.obj, params) :
          IF params.filterNoise = "false"
          THEN Cardinality(AtOrAbove(m, obj[last.obj].rows, params))
                 < (IF params.limit = 0 THEN 5 ELSE params.limit)
               => Returns(ms, m)
          ELSE ~Returns(ms, m)

\* C6 witness: a recall has run on an image with a row "ok" and a second
\* accepted row below it, where limit 1 with filterNoise false returns "ok"
C6_Witness ==
  /\ RecallReturned
  /\ \E params \in RecallParams : \E m, x \in obj[last.obj].rows :
       /\ IsOk(m) /\ x # m /\ Accepts(params, m) /\ Accepts(params, x)
       /\ params.filterNoise = "false" /\ params.limit = 1
       /\ \A ms \in Recalled(last.obj, params) : Returns(ms, m)

\* the step is a forget({query: X}) that returned
ForgetByQuery ==
  /\ last'.op = "forget" /\ last'.err = ""
  /\ last'.arg.memoryId = 0 /\ last'.arg.query # <<>>

\* the rows a recall for the query matches, the noise rows included: those
\* whose lower-cased text holds one of the query's words (all rows, when the
\* query has no word longer than one character)
Matched(rows, query) ==
  IF QueryWords(query) = {} THEN rows
  ELSE UNION { {r \in rows : LikeWord(toLowerCase(r.text), w)} : w \in QueryWords(query) }

\* C7 as stated - Deletion by query.  forget({query: X}) removes every row
\* an unfiltered recall for X matches, however many there are, and no other;
\* deleted is their number, and the total falls by that number.
C7_AsStated ==
  [][ ForgetByQuery
      => \A gone \in {Matched(obj[last'.obj].rows, last'.arg.query)} :
           /\ obj'[last'.obj].rows = obj[last'.obj].rows \ gone
           /\ last'.ret.count = Cardinality(gone)
           /\ Cardinality(obj'[last'.obj].rows)
                = Cardinality(obj[last'.obj].rows) - Cardinality(gone)
    ]_vars

\* C7 amended - Deletion by query.  forget({query: X}) removes the rows a
\* recall for X with limit 100 and filterNoise false returns: every matching
\* row when there are at most 100, otherwise 100 of them, none of which
\* ranks below a matching row that stays.  deleted is the number removed,
\* the total falls by that number, and every other row stays.
C7_DeletionByQuery ==
  [][ ForgetByQuery
      => \A all \in {Matched(obj[last'.obj].rows, last'.arg.query)},
            gone \in {obj[last'.obj].rows \ obj'[last'.obj].rows} :
           /\ obj'[last'.obj].rows \subseteq obj[last'.obj].rows
           /\ gone \subseteq all
           /\ IF Cardinality(all) <= 100 THEN gone = all ELSE Cardinality(gone) = 100
           /\ \A r \in all \ gone : \A g \in gone :
                NotRankedBelow(toMemory(g), toMemory(r))
           /\ last'.ret.count = Cardinality(gone)
           /\ Cardinality(obj'[last'.obj].rows)
                = Cardinality(obj[last'.obj].rows) - last'.ret.count
    ]_vars

\* C7 witness: a forget by query has removed 100 rows and a row the query
\* matches is still there
C7_Witness ==
  /\ last.op = "forget" /\ last.err = ""
  /\ last.arg.memoryId = 0 /\ last.arg.query # <<>>
  /\ last.ret.count = 100
  /\ Matched(obj[last.obj].rows, last.arg.query) # {}

\* C8 as stated - Lifecycle guard.  A store, recall, forget or stats on an
\* object that is not initialized (no init has succeeded, or close has run
\* since) fails with the not-initialized error.
C8_AsStated ==
  last.op \in {"store", "recall", "forget", "stats"} /\ ~obj[last.obj].initialized
    => last.err = "NotInitialized"

\* the step is a call on object i
CallOn(i) == last'.obj = i /\ vars' # vars

\* C9 - Shutdown.  close() is always possible and throws nothing; a close()
\* of a dirty object leaves the file equal to the image it held; after it
\* the object has no timer and no database handle, and until the next
\* init() every store, recall, forget and stats on it is refused and no
\* step of it writes the file.
C9_Shutdown ==
  /\ [](ENABLED HostClose)
  /\ [][ last'.op = "close"
         => /\ last'.err = ""
            /\ obj[last'.obj].dirty
                 => file' = [exists |-> TRUE, rows |-> obj[last'.obj].rows]
            /\ ~obj'[last'.obj].saveTimer
            /\ ~obj'[last'.obj].db
            /\ ~obj'[last'.obj].initialized ]_vars
  /\ [][ \A i \in Objects :
           CallOn(i) /\ ~obj[i].db /\ last'.op # "init"
             => /\ file' = file
                /\ last'.op \in {"store", "recall", "forget", "stats"}
                     => last'.err = "NotInitialized" ]_vars

\* C9 witness: in write-back mode an object is closed, and a record that
\* store() returned is in the file
C9_Witness ==
  /\ last.op = "close"
  /\ config.autoSaveInterval > 0
  /\ ~obj[last.obj].db
  /\ \E r \in file.rows : r.id <= MaxStores

\* C10 as stated - Initialization loses nothing.  After an initialization
\* that succeeds, every record the object in use held before it is held by
\* the object in use after it; and a shutdown leaves every record of the
\* object in the file.
C10_AsStated ==
  /\ [][ /\ last'.op = "plugin.init" /\ last'.err = ""
         /\ pluginInstance # 0 /\ pluginInstance' # pluginInstance
         /\ obj[pluginInstance].initialized
         => obj[pluginInstance].rows \subseteq obj'[pluginInstance'].rows ]_vars
  /\ [][ last'.op = "shutdown" /\ pluginInstance # 0 /\ obj[pluginInstance].db
         => obj[pluginInstance].rows \subseteq file'.rows ]_vars

\* a store() or a forget() has just returned on an object in write-through
\* mode (autoSaveInterval = 0)
WriteThroughReturned ==
  /\ config.autoSaveInterval = 0
  /\ last.op \in {"store", "forget", "memory_store", "memory_forget"}
  /\ last.err = ""

\* C11 - Write-through durability.  With autoSaveInterval = 0, when a
\* store() or a forget() has returned, the dirty flag of the object is false
\* and the file holds exactly the rows of the image, the rows that the store
\* evicted being in neither.  (A file that does not exist holds no rows.)
C11_WriteThrough ==
  WriteThroughReturned
    => /\ ~obj[last.obj].dirty
       /\ file.rows = obj[last.obj].rows
       /\ obj[last.obj].rows # {} => file.exists

\* C11 witness: in write-through mode a store() into a full image has
\* returned; a row that was there before is gone from the image and from the
\* file, and the file is the image
C11_Witness ==
  /\ WriteThroughReturned
  /\ last.op = "store"
  /\ Cardinality(obj[last.obj].rows) = config.maxMemories
  /\ last.ret.memories[1].id > config.maxMemories
  /\ \E r \in file.rows : r.id = last.ret.memories[1].id
  /\ file = [exists |-> TRUE, rows |-> obj[last.obj].rows]

\* the object the host works on: the one it constructed, or pluginInstance
InUse == IF hostObject # 0 THEN hostObject ELSE pluginInstance

\* object i is Ready: an init() has run to completion and no close() since
Ready(i) == i # 0 /\ obj[i].db /\ obj[i].initialized

\* the step is a store() that returned, or a forget() that deleted a row: an
\* insert, a deletion or an eviction has changed the image
ChangesImage ==
  /\ last'.err = ""
  /\ \/ last'.op \in {"store", "memory_store"}
     \/ last'.op \in {"forget", "memory_forget"} /\ last'.ret.count > 0

\* C12 as stated - Dirty-flag meaning.  Between operations, in both save
\* modes, the dirty flag of the Ready object in use is true exactly if an
\* insert, a deletion or an eviction has changed its image since the last
\* flush: a step that changes the image leaves the flag set unless it also
\* flushes (write-through), a timer tick leaves it clear, and every other
\* step leaves it as it was.  Whenever the flag is clear, the file holds
\* exactly the rows of the image.
C12_AsStated ==
  /\ [](Ready(InUse) /\ ~obj[InUse].dirty => file.rows = obj[InUse].rows)
  /\ [][ Ready(InUse) /\ InUse' = InUse /\ Ready(InUse)' /\ last'.obj = InUse
         => obj'[InUse].dirty =
              IF ChangesImage THEN config.autoSaveInterval > 0
              ELSE IF last'.op = "timer" THEN FALSE
              ELSE obj[InUse].dirty ]_vars

\* C13 as stated - Initialization must complete.  When an init() has thrown
\* (the load, the schema creation or the first save failed), the next store,
\* recall, forget or stats on the object fails with the not-initialized
\* error.
C13_AsStated ==
  [][ /\ last.op = "init" /\ last.err # ""
      /\ CallOn(last.obj)
      /\ last'.op \in {"store", "recall", "forget", "stats"}
      => last'.err = "NotInitialized" ]_vars

\* C14 - Recall is a pure read.  A recall() or a stats(), whatever the state
\* and the request, leaves the fields of every object (the rows of the
\* image, the dirty flag, the timer, the handle) and the file as they were.
C14_PureRead ==
  [][ last'.op \in {"recall", "stats"} /\ last' # last
      => obj' = obj /\ file' = file ]_vars

\* C14 witness: a recall() has returned on an object that holds rows, is
\* dirty and has its timer, while the file holds other rows than the image
C14_Witness ==
  /\ RecallReturned
  /\ obj[last.obj].rows # {}
  /\ obj[last.obj].dirty /\ obj[last.obj].saveTimer
  /\ file.rows # obj[last.obj].rows

\* C15 - Forget by identifier and the empty forget.  A forget() with a
\* memoryId removes the row with that id and no other, with or without a
\* query beside it, and returns deleted = 1 if the row was there and 0 if
\* not; no row is evicted, even from an image that holds more than
\* maxMemories.  A forget() with neither memoryId nor query returns
\* deleted = 0.  Whenever deleted = 0, the fields of the object (its image
\* and its dirty flag among them) and the file are as before.
C15_ForgetById ==
  [][ last'.op = "forget" /\ last'.err = "" /\ last' # last
      => \A i \in {last'.obj}, p \in {last'.arg}, n \in {last'.ret.count} :
           \A target \in {{r \in obj[i].rows : r.id = p.memoryId}} :
             /\ p.memoryId # 0
                  => /\ obj'[i].rows = obj[i].rows \ target
                     /\ n = Cardinality(target)
                     /\ n \in {0, 1}
             /\ p.memoryId = 0 /\ p.query = <<>> => n = 0
             /\ n = 0 => obj' = obj /\ file' = file ]_vars

\* C15 witness: a forget() by the id of a row, with no query, has removed
\* that row from an image that still holds more rows than maxMemories
C15_Witness ==
  /\ last.op = "forget" /\ last.err = ""
  /\ last.arg.memoryId # 0 /\ last.arg.query = <<>>
  /\ last.ret.count = 1
  /\ \A r \in obj[last.obj].rows : r.id # last.arg.memoryId
  /\ Cardinality(obj[last.obj].rows) > config.maxMemories

\* the limit of the request: the one given, 5 when none is
LimitOf(params) == IF params.limit = 0 THEN 5 ELSE params.limit

\* the request suppresses the row: its noise filter is on and the text is noise
Suppressed(params, row) == params.filterNoise # "false" /\ IsNoise(row.text)

\* the rows of all that strictly outrank row x
Above(x, all) == { y \in all : ~NotRankedBelow(toMemory(x), toMemory(y)) }

\* the rows of all, other than x, that x does not strictly outrank
NotBelow(x, all) == { y \in all \ {x} : NotRankedBelow(toMemory(y), toMemory(x)) }

\* C16 - Over-fetch and truncation.  With M the rows the predicates of a
\* request accept and L its limit, what recall returns is at most L
\* records, distinct and in rank order, each of them a row of M that is not
\* suppressed and that fewer than 2L rows of M outrank; a row of M that is
\* not suppressed and not returned ranks no higher than any returned one
\* when L records are returned, and has 2L rows of M at or above it when
\* fewer are; and when more than L suppressed rows of M have each fewer than
\* 2L rows at or above them, fewer than L records are returned.
C16_OverFetch ==
  RecallReturned =>
    \A params \in RecallParams :
      \A L \in {LimitOf(params)}, M \in {{r \in obj[last.obj].rows : Accepts(params, r)}} :
        \A ms \in Recalled(last.obj, params) :
          \A got \in {{r \in M : Returns(ms, r)}} :
            /\ Len(ms) <= L
            /\ Cardinality(got) = Len(ms)
            /\ \A k \in 1..Len(ms) : \E r \in got : ms[k] = toMemory(r)
            /\ \A j, k \in 1..Len(ms) : j < k => NotRankedBelow(ms[j], ms[k])
            /\ \A r \in got :
                 ~Suppressed(params, r) /\ Cardinality(Above(r, M)) < 2 * L
            /\ \A x \in M \ got :
                 ~Suppressed(params, x)
                   => IF Len(ms) = L
                      THEN \A r \in got : NotRankedBelow(toMemory(r), toMemory(x))
                      ELSE Cardinality(NotBelow(x, M)) >= 2 * L
            /\ Cardinality({x \in M : /\ Suppressed(params, x)
                                       /\ Cardinality(NotBelow(x, M)) < 2 * L}) > L
                 => Len(ms) < L

\* C16 witness: a recall has run on an image where, for a request with
\* limit 1 and the noise filter on, the two best rows the predicates accept
\* are noise and a third row they accept is not: the request returns nothing
C16_Witness ==
  /\ RecallReturned
  /\ \E params \in RecallParams :
       /\ params.limit = 1 /\ params.filterNoise = "true"
       /\ \E a, b, c \in obj[last.obj].rows :
            /\ a # b
            /\ Accepts(params, a) /\ Accepts(params, b) /\ Accepts(params, c)
            /\ IsNoise(a.text) /\ IsNoise(b.text) /\ ~IsNoise(c.text)
            /\ ~NotRankedBelow(toMemory(c), toMemory(a))
            /\ ~NotRankedBelow(toMemory(c), toMemory(b))
       /\ Recalled(last.obj, params) = {<<>>}

\* C17 as stated - Matching predicate.  Every record a recall returns
\* satisfies all the predicates of the request: when the lower-cased query
\* has tokens longer than one character, one of them occurs in the record's
\* lower-cased text; the category, when given, is the record's; dateFrom,
\* when given, is at most createdAt and dateTo, when given, at least, in
\* string order.  A query without such a token returns what the empty query
\* returns.
C17_AsStated ==
  RecallReturned =>
    \A params \in RecallParams :
      /\ \A ms \in Recalled(last.obj, params) : \A k \in 1..Len(ms) :
           /\ QueryWords(params.query) # {}
                => LoweredTokenOccurs(params.query, ms[k].text)
           /\ params.category # "" => ms[k].category = params.category
           /\ params.dateFrom # <<>> => StrLeq(params.dateFrom, ms[k].createdAt)
           /\ params.dateTo # <<>> => StrLeq(ms[k].createdAt, params.dateTo)
      /\ QueryWords(params.query) = {}
           => Recalled(last.obj, params) = Recalled(last.obj, [params EXCEPT !.query = <<>>])

\* what forget's own recall asks for: recall({query, limit: 100,
\* filterNoise: false})
Candidates(query) ==
  [NoRecallParams EXCEPT !.query = query, !.limit = 100, !.filterNoise = "false"]

\* C18 - Forget-by-query candidate set.  A forget({query: X}) with a
\* non-empty X removes the rows of one of the results that
\* recall({query: X, limit: 100, filterNoise: false}) has in the state the
\* forget runs in, noise rows among them, at most 100; it removes no other
\* row, and deleted is their number.
C18_Candidates ==
  [][ ForgetByQuery
      => \A before \in {obj[last'.obj].rows} :
           \E ms \in recall(before, Candidates(last'.arg.query)) :
             /\ obj'[last'.obj].rows = {r \in before : ~Returns(ms, r)}
             /\ Len(ms) <= 100
             /\ last'.ret.count = Len(ms) ]_vars

\* C18 witness: in write-back mode a forget by query has removed 100 rows,
\* a noise row among them (the file still holds it), and a row the query
\* matches is still there
C18_Witness ==
  /\ last.op = "forget" /\ last.err = ""
  /\ last.arg.memoryId = 0 /\ last.arg.query # <<>>
  /\ last.ret.count = 100
  /\ \E r \in file.rows \ obj[last.obj].rows : IsNoise(r.text)
  /\ \E r \in obj[last.obj].rows : Accepts(Candidates(last.arg.query), r)

\* the object in use is Ready and its dirty flag is set
DirtyReady == Ready(InUse) /\ obj[InUse].dirty

\* the flag of the object in use is clear and, unless the object is closed,
\* the file holds exactly the rows of its image
Flushed ==
  /\ ~obj[InUse].dirty
  /\ obj[InUse].db => file = [exists |-> TRUE, rows |-> obj[InUse].rows]

\* C19 - Write-back eventually flushes.  With autoSaveInterval > 0 and a
\* timer that keeps firing, every state in which the object is Ready and
\* dirty is followed by a state in which its flag is clear and the file is
\* its image (or the object is closed, which has flushed it); and a timer
\* tick on an object whose flag is clear leaves the file as it was.
C19_WriteBack ==
  /\ DirtyReady ~> Flushed
  /\ [][ last'.op = "timer" /\ last' # last /\ ~obj[last'.obj].dirty
         => file' = file /\ obj' = obj ]_vars

\* C19 witness: a timer tick has just left a Ready object clean, the file
\* holding a record stored in this session
C19_Witness ==
  /\ last.op = "timer"
  /\ Ready(InUse) /\ last.obj = InUse
  /\ Flushed
  /\ \E r \in file.rows : r.id <= MaxStores

\* the worlds in which the store() of the step may have ended: those that
\* agree with the state after it
StoreEnds ==
  { w \in storeOn(World(last'.obj), config, last'.ret.memories[1]) :
      Fields(w) = obj'[last'.obj] /\ w.file = file' }

\* C20 as stated - Flush sees a quiescent image.  In both save modes every
\* image that a store() hands to writeFileSync is the image the store()
\* leaves, eviction done, never the one between its insert and its
\* eviction; a timer tick writes the image as an operation has left it; and
\* no image written, and so no file, holds more than maxMemories rows.
C20_AsStated ==
  /\ [][ StoreReturned /\ last'.op = "store"
         => \A w \in StoreEnds : \A k \in 1..Len(w.writes) :
              /\ w.writes[k] = w.rows
              /\ Cardinality(w.writes[k]) <= config.maxMemories ]_vars
  /\ [][ last'.op = "timer" /\ file' # file
         => file'.rows = obj[last'.obj].rows ]_vars
  /\ [](Cardinality(file.rows) <= config.maxMemories)
====
